---- MODULE Spec2Model ----
(***************************************************************************)
(* Model of fuel-tx's TransactionBuilder (src/fuel-tx/src/builder.rs):     *)
(* the three constructors, the signing-key ledger (sign_keys), the        *)
(* input / output / witness accumulators, the consensus-parameter         *)
(* snapshot and the two finalize protocols.                                *)
(*                                                                         *)
(* Every method of the builder is an operator from the builder value (and  *)
(* the call's arguments) to a record [self, ret, panic]: the builder after *)
(* the call, the returned value, and whether the call panicked.  Actions   *)
(* apply one method to the state.                                          *)
(***************************************************************************)
EXTENDS Integers, Sequences, FiniteSets, TLC

VARIABLES
    builder,    \* TransactionBuilder<Tx> { tx, params, sign_keys }
    ctor,       \* the arguments the constructor was called with
    out,        \* the value returned by the latest finalize call
    fault,      \* the panic that ended the program, if any
    kept        \* the finalize results the caller holds on to since the last &mut call

vars == <<builder, ctor, out, fault, kept>>

(***************************************************************************)
(* Bounds of the model and program constants.                              *)
(***************************************************************************)
\* u8::MAX, the largest witness index upsert_secret can represent
U8Max == 255
\* cap on the length of the input sequence
MaxInputs == 2
\* cap on the length of the output sequence
MaxOutputs == 1
\* cap on the length of the witness sequence
MaxWitnesses == 3
\* cap on the number of policy fields / parameter subgroups overridden
MaxTweaks == 2
\* cap on the length of the input sequence where only keys are registered
MaxKeyInputs == 4
\* cap on the length of the input sequence where the witness sequence grows long
MaxLongInputs == 2
\* cap on the number of storage slots handed to create
MaxSlots == 3
\* cap on the number of finalize results the caller holds on to
MaxKept == 3
\* cap on the length of the input sequence where the signing order is observed
MaxOrderInputs == 3

\* SecretKey values; BTreeMap<SecretKey, u8> iterates them in ascending order
Keys == {1, 2}

(***************************************************************************)
(* Values of the collaborating types.                                      *)
(***************************************************************************)
\* Option<T>
None == <<>>
Some(v) == <<v>>

\* Witness::default(): the empty byte vector
WitnessDefault == [bytes |-> <<>>]
\* a witness holding the given bytes
WitnessOf(bytes) == [bytes |-> bytes]

\* SecretKey::public_key
public_key(secret) == [public_key_of |-> secret]
\* Input::owner: the address derived from a public key
owner(pk) == [address_of |-> pk]

\* Input::coin_signed
coin_signed(utxo_id, own, amount, asset_id, tx_pointer, witness_index) ==
    [type |-> "CoinSigned", utxo_id |-> utxo_id, owner |-> own,
     amount |-> amount, asset_id |-> asset_id, tx_pointer |-> tx_pointer,
     witness_index |-> witness_index]

\* Input::message_coin_signed
message_coin_signed(sender, recipient, amount, nonce, witness_index) ==
    [type |-> "MessageCoinSigned", sender |-> sender, owner |-> recipient,
     amount |-> amount, nonce |-> nonce, witness_index |-> witness_index]

\* Input::message_data_signed
message_data_signed(sender, recipient, amount, nonce, witness_index, data) ==
    [type |-> "MessageDataSigned", sender |-> sender, owner |-> recipient,
     amount |-> amount, nonce |-> nonce, witness_index |-> witness_index,
     data |-> data]

\* an input that carries no witness index (a contract input)
contract_input == [type |-> "Contract", contract_id |-> 1]

\* whether an input is one of the signed kinds sign_inputs looks at
IsSigned(input) ==
    input.type \in {"CoinSigned", "MessageCoinSigned", "MessageDataSigned"}

\* Policies::new().with_max_fee(0)
InitialPolicies ==
    [tip |-> None, witness_limit |-> None, maturity |-> None, max_fee |-> Some(0)]

\* metadata: None
NoMetadata == [cached |-> FALSE]

\* a slice of the default gas-cost table
default_gas_costs == [add |-> 1, bal |-> 13, burn |-> 132, croo |-> 16]
\* a gas-cost table a caller may install instead
free_gas_costs == [add |-> 0, bal |-> 0, burn |-> 0, croo |-> 0]

\* ConsensusParameters::standard()
standard ==
    [tx_params |-> "standard", predicate_params |-> "standard",
     script_params |-> "standard", contract_params |-> "standard",
     fee_params |-> "standard", chain_id |-> 0,
     gas_costs |-> default_gas_costs, base_asset_id |-> 0]

(***************************************************************************)
(* Constructors.                                                           *)
(***************************************************************************)
\* TransactionBuilder::with_tx
with_tx(tx) == [tx |-> tx, params |-> standard, sign_keys |-> << >>]

\* TransactionBuilder::<Script>::script
script(scr, script_data) ==
    with_tx([kind |-> "Script", script_gas_limit |-> 0, script |-> scr,
             script_data |-> script_data, policies |-> InitialPolicies,
             inputs |-> <<>>, outputs |-> <<>>, witnesses |-> <<>>,
             receipts_root |-> 0, metadata |-> NoMetadata])

\* Ord for StorageSlot: slots compare by key
SlotLeq(a, b) == a.key <= b.key

\* insert slot s into the sorted sequence, after every slot not greater than it
RECURSIVE InsertSlot(_, _)
InsertSlot(s, sorted) ==
    IF sorted = <<>> THEN <<s>>
    ELSE IF SlotLeq(Head(sorted), s)
         THEN <<Head(sorted)>> \o InsertSlot(s, Tail(sorted))
         ELSE <<s>> \o sorted

\* the unsorted sequence: what create would keep if it did not sort
UnsortedSlots(slots) == slots

\* Vec<StorageSlot>::sort: a stable sort, ascending
RECURSIVE SortSlots(_)
SortSlots(slots) ==
    IF slots = <<>> THEN <<>>
    ELSE InsertSlot(slots[Len(slots)], SortSlots(SubSeq(slots, 1, Len(slots) - 1)))

\* create without the push of the bytecode witness
create_without_bytecode_witness(bytecode, salt, storage_slots) ==
    with_tx([kind |-> "Create",
             bytecode_length |-> Len(bytecode.bytes) \div 4,
             bytecode_witness_index |-> 0,
             salt |-> salt,
             storage_slots |-> SortSlots(storage_slots),
             policies |-> InitialPolicies,
             inputs |-> <<>>, outputs |-> <<>>,
             witnesses |-> <<>>,
             metadata |-> NoMetadata])

\* TransactionBuilder::<Create>::create
create(bytecode, salt, storage_slots) ==
    with_tx([kind |-> "Create",
             bytecode_length |-> Len(bytecode.bytes) \div 4,
             bytecode_witness_index |-> 0,
             salt |-> salt,
             storage_slots |-> SortSlots(storage_slots),
             policies |-> InitialPolicies,
             inputs |-> <<>>, outputs |-> <<>>,
             witnesses |-> <<bytecode>>,
             metadata |-> NoMetadata])

\* TransactionBuilder::<Mint>::mint
mint(block_height, tx_index, input_contract, output_contract, mint_amount, mint_asset_id, gas_price) ==
    with_tx([kind |-> "Mint",
             tx_pointer |-> [block_height |-> block_height, tx_index |-> tx_index],
             input_contract |-> input_contract,
             output_contract |-> output_contract,
             mint_amount |-> mint_amount,
             mint_asset_id |-> mint_asset_id,
             gas_price |-> gas_price,
             metadata |-> NoMetadata])

\* impl<Tx> in place of impl<Tx: Buildable>: the methods exist for every kind
IsAnyKind(self) == self.tx.kind \in {"Script", "Create", "Mint"}

\* the kinds whose transaction type is Buildable (Script and Create)
IsBuildable(self) == self.tx.kind \in {"Script", "Create"}

(***************************************************************************)
(* Results of a method call.                                               *)
(***************************************************************************)
\* the call returned ret and left the builder as self
Returned(self, ret) == [self |-> self, ret |-> ret, panic |-> "none"]
\* the call panicked with the given message when the builder was self
Panicked(self, message) == [self |-> self, ret |-> None, panic |-> message]

(***************************************************************************)
(* Signing-key ledger and accumulators (impl<Tx: Buildable>).              *)
(***************************************************************************)
\* Buildable::add_input
tx_add_input(tx, input) == [tx EXCEPT !.inputs = Append(@, input)]

\* Buildable::add_witness
tx_add_witness(tx, witness) == [tx EXCEPT !.witnesses = Append(@, witness)]

\* TransactionBuilder::add_input
add_input(self, input) ==
    Returned([self EXCEPT !.tx = tx_add_input(@, input)], None)

\* add_witness leaving out a witness the sequence already holds
add_witness_deduplicating(self, witness) ==
    IF \E w \in 1..Len(self.tx.witnesses) : self.tx.witnesses[w] = witness
    THEN Returned(self, None)
    ELSE Returned([self EXCEPT !.tx = tx_add_witness(@, witness)], None)

\* TransactionBuilder::add_witness
add_witness(self, witness) ==
    Returned([self EXCEPT !.tx = tx_add_witness(@, witness)], None)

\* TransactionBuilder::add_output
add_output(self, output) ==
    Returned([self EXCEPT !.tx.outputs = Append(@, output)], None)

\* a ledger that holds secret_key at witness_index besides what it held
LedgerWith(sign_keys, secret_key, witness_index) ==
    [k \in DOMAIN sign_keys \cup {secret_key} |->
        IF k = secret_key THEN witness_index ELSE sign_keys[k]]

\* upsert_secret without the lookup: every call appends a witness and records it
upsert_secret_always_new(self, secret_key) ==
    LET len == Len(self.tx.witnesses) IN
    IF len > U8Max
    THEN Panicked(self, "The number of witnesses cannot exceed u8::MAX")
    ELSE Returned([self EXCEPT
                      !.tx.witnesses = Append(@, WitnessDefault),
                      !.sign_keys = LedgerWith(@, secret_key, len)],
                  len)

\* upsert_secret with insert in place of or_insert_with: a known key is re-pointed
upsert_secret_overwrite(self, secret_key) ==
    LET len == Len(self.tx.witnesses) IN
    IF len > U8Max
    THEN Panicked(self, "The number of witnesses cannot exceed u8::MAX")
    ELSE IF secret_key \in DOMAIN self.sign_keys
         THEN Returned([self EXCEPT !.sign_keys = LedgerWith(@, secret_key, len)],
                       len)
         ELSE Returned([self EXCEPT
                           !.tx.witnesses = Append(@, WitnessDefault),
                           !.sign_keys = LedgerWith(@, secret_key, len)],
                       len)

\* upsert_secret taking the length after the push as the index
upsert_secret_index_after_push(self, secret_key) ==
    LET len == Len(self.tx.witnesses) IN
    IF len > U8Max
    THEN Panicked(self, "The number of witnesses cannot exceed u8::MAX")
    ELSE IF secret_key \in DOMAIN self.sign_keys
         THEN Returned(self, self.sign_keys[secret_key])
         ELSE Returned([self EXCEPT
                           !.tx.witnesses = Append(@, WitnessDefault),
                           !.sign_keys = LedgerWith(@, secret_key, len + 1)],
                       len + 1)

\* upsert_secret pushing the placeholder of a new key before the range check
upsert_secret_push_first(self, secret_key) ==
    LET len == Len(self.tx.witnesses)
        pushed == IF secret_key \in DOMAIN self.sign_keys THEN self
                  ELSE [self EXCEPT !.tx.witnesses = Append(@, WitnessDefault)]
    IN  IF len > U8Max
        THEN Panicked(pushed, "The number of witnesses cannot exceed u8::MAX")
        ELSE IF secret_key \in DOMAIN self.sign_keys
             THEN Returned(self, self.sign_keys[secret_key])
             ELSE Returned([pushed EXCEPT
                               !.sign_keys = LedgerWith(@, secret_key, len)],
                           len)

\* upsert_secret recording a new key without the push of its placeholder
upsert_secret_without_push(self, secret_key) ==
    LET len == Len(self.tx.witnesses) IN
    IF len > U8Max
    THEN Panicked(self, "The number of witnesses cannot exceed u8::MAX")
    ELSE IF secret_key \in DOMAIN self.sign_keys
         THEN Returned(self, self.sign_keys[secret_key])
         ELSE Returned([self EXCEPT !.sign_keys = LedgerWith(@, secret_key, len)],
                       len)

\* upsert_secret numbering the keys by a count of the ledger's entries
upsert_secret_counting_keys(self, secret_key) ==
    LET len == Len(self.tx.witnesses)
        count == Cardinality(DOMAIN self.sign_keys)
    IN  IF len > U8Max
        THEN Panicked(self, "The number of witnesses cannot exceed u8::MAX")
        ELSE IF secret_key \in DOMAIN self.sign_keys
             THEN Returned(self, self.sign_keys[secret_key])
             ELSE Returned([self EXCEPT
                               !.tx.witnesses = Append(@, WitnessDefault),
                               !.sign_keys = LedgerWith(@, secret_key, count)],
                           count)

\* TransactionBuilder::upsert_secret
upsert_secret(self, secret_key) ==
    LET len == Len(self.tx.witnesses) IN
    IF len > U8Max
    THEN Panicked(self, "The number of witnesses cannot exceed u8::MAX")
    ELSE IF secret_key \in DOMAIN self.sign_keys
         THEN Returned(self, self.sign_keys[secret_key])
         ELSE Returned([self EXCEPT
                           !.tx.witnesses = Append(@, WitnessDefault),
                           !.sign_keys = LedgerWith(@, secret_key, len)],
                       len)

\* Executable::add_unsigned_coin_input
tx_add_unsigned_coin_input(tx, utxo_id, pk, amount, asset_id, tx_pointer, witness_index) ==
    tx_add_input(tx, coin_signed(utxo_id, owner(pk), amount, asset_id,
                                 tx_pointer, witness_index))

\* Executable::add_unsigned_message_input
tx_add_unsigned_message_input(tx, sender, recipient, nonce, amount, data, witness_index) ==
    tx_add_input(tx,
        IF data = <<>>
        THEN message_coin_signed(sender, recipient, amount, nonce, witness_index)
        ELSE message_data_signed(sender, recipient, amount, nonce, witness_index, data))

\* TransactionBuilder::add_unsigned_coin_input
add_unsigned_coin_input(self, secret, utxo_id, amount, asset_id, tx_pointer) ==
    LET pk == public_key(secret)
        up == upsert_secret(self, secret)
    IN  IF up.panic # "none" THEN up
        ELSE Returned([up.self EXCEPT !.tx =
                          tx_add_unsigned_coin_input(@, utxo_id, pk, amount,
                              asset_id, tx_pointer, up.ret)],
                      None)

\* TransactionBuilder::add_unsigned_message_input
add_unsigned_message_input(self, secret, sender, nonce, amount, data) ==
    LET pk == public_key(secret)
        recipient == owner(pk)
        up == upsert_secret(self, secret)
    IN  IF up.panic # "none" THEN up
        ELSE Returned([up.self EXCEPT !.tx =
                          tx_add_unsigned_message_input(@, sender, recipient,
                              nonce, amount, data, up.ret)],
                      None)

(***************************************************************************)
(* Policy setters (impl<Tx: Buildable>).                                   *)
(***************************************************************************)
\* TransactionBuilder::tip
tip(self, v) == Returned([self EXCEPT !.tx.policies.tip = Some(v)], None)

\* TransactionBuilder::script_gas_limit (Tx: field::ScriptGasLimit)
script_gas_limit(self, gas_limit) ==
    Returned([self EXCEPT !.tx.script_gas_limit = gas_limit], None)

\* TransactionBuilder::maturity
maturity(self, v) == Returned([self EXCEPT !.tx.policies.maturity = Some(v)], None)

\* TransactionBuilder::witness_limit
witness_limit(self, v) ==
    Returned([self EXCEPT !.tx.policies.witness_limit = Some(v)], None)

\* TransactionBuilder::max_fee_limit
max_fee_limit(self, max_fee) ==
    Returned([self EXCEPT !.tx.policies.max_fee = Some(max_fee)], None)

(***************************************************************************)
(* Consensus-parameter snapshot (impl<Tx>, with_chain_id: Tx: Buildable).  *)
(***************************************************************************)
\* TransactionBuilder::get_chain_id
get_chain_id(self) == self.params.chain_id

\* TransactionBuilder::with_params
with_params(self, params) == Returned([self EXCEPT !.params = params], None)

\* TransactionBuilder::with_tx_params
with_tx_params(self, v) == Returned([self EXCEPT !.params.tx_params = v], None)

\* TransactionBuilder::with_predicate_params
with_predicate_params(self, v) ==
    Returned([self EXCEPT !.params.predicate_params = v], None)

\* TransactionBuilder::with_script_params
with_script_params(self, v) ==
    Returned([self EXCEPT !.params.script_params = v], None)

\* TransactionBuilder::with_contract_params
with_contract_params(self, v) ==
    Returned([self EXCEPT !.params.contract_params = v], None)

\* TransactionBuilder::with_fee_params
with_fee_params(self, v) == Returned([self EXCEPT !.params.fee_params = v], None)

\* with_base_asset_id writing the other id of the snapshot, the chain id
with_base_asset_id_as_chain_id(self, v) ==
    Returned([self EXCEPT !.params.chain_id = v], None)

\* TransactionBuilder::with_base_asset_id
with_base_asset_id(self, v) ==
    Returned([self EXCEPT !.params.base_asset_id = v], None)

\* TransactionBuilder::with_gas_costs
with_gas_costs(self, v) == Returned([self EXCEPT !.params.gas_costs = v], None)

\* TransactionBuilder::with_chain_id
with_chain_id(self, chain_id) ==
    Returned([self EXCEPT !.params.chain_id = chain_id], None)

(***************************************************************************)
(* Signing and canonicalization (Signable, Cacheable).                     *)
(***************************************************************************)
\* the transaction body an id is computed from: witnesses and cache left out
Body(tx) ==
    IF tx.kind = "Mint" THEN [tx EXCEPT !.metadata = NoMetadata]
    ELSE [tx EXCEPT !.witnesses = <<>>, !.metadata = NoMetadata]

\* UniqueIdentifier::id: the cached id when there is one, else computed
id(tx, chain_id) ==
    IF tx.metadata.cached THEN tx.metadata.id
    ELSE [chain_id |-> chain_id, body |-> Body(tx)]

\* Signature::sign: the signature of secret over the id, as a witness
Sign(secret, txid) == [signer |-> secret, message |-> txid]

\* the witness indices of the signed inputs owned by the given address
WitnessIndexesOf(tx, own) ==
    {tx.inputs[i].witness_index :
        i \in {j \in 1..Len(tx.inputs) :
                  IsSigned(tx.inputs[j]) /\ tx.inputs[j].owner = own}}

\* Signable::sign_inputs
sign_inputs(tx, secret, chain_id) ==
    LET pk == owner(public_key(secret))
        signature == Sign(secret, id(tx, chain_id))
        witness_indexes == WitnessIndexesOf(tx, pk)
    IN  [tx EXCEPT !.witnesses =
            [w \in 1..Len(@) |->
                IF (w - 1) \in witness_indexes THEN signature ELSE @[w]]]

\* Cacheable::precompute: Ok(tx with the derived metadata cached) or Err
precompute(tx, chain_id) ==
    IF tx.kind = "Create" /\ tx.bytecode_witness_index >= Len(tx.witnesses)
    THEN [ok |-> FALSE, tx |-> tx]
    ELSE [ok |-> TRUE,
          tx |-> [tx EXCEPT !.metadata =
                    [cached |-> TRUE,
                     id |-> [chain_id |-> chain_id, body |-> Body(tx)],
                     assembled |-> IF tx.kind = "Mint" THEN <<>> ELSE tx.witnesses]]]

\* the greatest key first: sign_keys.iter().rev()
GreatestKey(keys) == CHOOSE k \in keys : \A other \in keys : other <= k

\* the least key of a non-empty set of keys (BTreeMap iteration order)
FirstKey(keys) == CHOOSE k \in keys : \A other \in keys : k <= other

\* self.sign_keys.iter().for_each(|(k, _)| tx.sign_inputs(k, chain_id))
RECURSIVE SignEach(_, _, _)
SignEach(tx, keys, chain_id) ==
    IF keys = {} THEN tx
    ELSE LET k == FirstKey(keys)
         IN  SignEach(sign_inputs(tx, k, chain_id), keys \ {k}, chain_id)

\* the result of tx.precompute(..).expect(..) as the result of the method
Expect(self, pre) ==
    IF pre.ok THEN Returned(self, pre.tx)
    ELSE Panicked(self, "Should be able to calculate cache")

\* finalize_without_signature_inner running the signing phase all the same
finalize_without_signature_inner_signing(self) ==
    LET tx == self.tx
        signed == SignEach(tx, DOMAIN self.sign_keys, get_chain_id(self))
    IN  Expect(self, precompute(signed, get_chain_id(self)))

\* TransactionBuilder::finalize_without_signature_inner
finalize_without_signature_inner(self) ==
    LET tx == self.tx
    IN  Expect(self, precompute(tx, get_chain_id(self)))

\* finalize_inner signing self.tx in place instead of a clone
finalize_inner_in_place(self) ==
    LET signed == SignEach(self.tx, DOMAIN self.sign_keys, get_chain_id(self))
        pre == precompute(signed, get_chain_id(self))
    IN  Expect([self EXCEPT !.tx = signed], pre)

\* finalize_inner signing under ChainId::default() instead of the snapshot's id
finalize_inner_default_chain(self) ==
    LET tx == self.tx
        signed == SignEach(tx, DOMAIN self.sign_keys, 0)
    IN  Expect(self, precompute(signed, get_chain_id(self)))

\* TransactionBuilder::finalize_inner
finalize_inner(self) ==
    LET tx == self.tx
        signed == SignEach(tx, DOMAIN self.sign_keys, get_chain_id(self))
    IN  Expect(self, precompute(signed, get_chain_id(self)))

\* Finalizable<Mint>::finalize
mint_finalize(self) ==
    LET tx == self.tx
    IN  Expect(self, precompute(tx, get_chain_id(self)))

\* Finalizable<Tx>::finalize
finalize(self) ==
    IF self.tx.kind = "Mint" THEN mint_finalize(self) ELSE finalize_inner(self)

\* finalize_without_signature returning Mint's draft as it is, nothing cached
finalize_without_signature_uncached(self) ==
    IF self.tx.kind = "Mint" THEN Returned(self, self.tx)
    ELSE finalize_without_signature_inner(self)

\* Finalizable<Tx>::finalize_without_signature
finalize_without_signature(self) ==
    IF self.tx.kind = "Mint" THEN finalize(self)
    ELSE finalize_without_signature_inner(self)

(***************************************************************************)
(* Arguments the caller draws from.                                        *)
(***************************************************************************)
\* StorageSlot values
Slot(key, value) == [key |-> key, value |-> value]
\* the bytecode witness handed to create
Bytecode == WitnessOf(<<1, 2, 3, 4, 5>>)
\* the storage slots handed to create in the main specification
MainSlots == <<Slot(2, 0), Slot(1, 0)>>
\* witnesses handed to add_witness
CallerWitnesses == {WitnessOf(<<9>>)}
\* outputs handed to add_output
CallerOutputs == {[type |-> "Change", to |-> 1]}
\* inputs handed to add_input
RawInputs ==
    {coin_signed(2, owner(public_key(k)), 1, 0, 0, w) : k \in Keys, w \in {0, 1}}
    \cup {contract_input}
\* Word values handed to the policy setters
Words == {1}
\* values handed to the setters of the opaque parameter subgroups
SubgroupValues == {"standard", "custom"}
\* ChainId and AssetId values handed to with_chain_id / with_base_asset_id
Ids == {0, 1}
\* gas-cost tables handed to with_gas_costs
GasCostTables == {default_gas_costs, free_gas_costs}
\* parameter snapshots handed to with_params
Profiles == {standard, [standard EXCEPT !.chain_id = 1]}

(***************************************************************************)
(* State machine.                                                          *)
(***************************************************************************)
NoFault == [message |-> "none"]
NoOutput == [call |-> "none"]

\* the builder a constructor call with the given arguments returns
Construct(args) ==
    CASE args.kind = "Script" -> script(<<>>, <<>>)
      [] args.kind = "Create" -> create(args.bytecode, 0, args.storage_slots)
      [] args.kind = "Mint" -> mint(1, 0, 1, 1, args.mint_amount, 0, 1)

\* constructor arguments of the main specification
MainArgs ==
    {[kind |-> k, bytecode |-> Bytecode, storage_slots |-> MainSlots] :
        k \in {"Script", "Create"}}

\* constructor arguments of a Mint builder
MintArgs == {[kind |-> "Mint", mint_amount |-> a] : a \in {0, 5}}

InitWith(argset) ==
    /\ ctor \in argset
    /\ builder = Construct(ctor)
    /\ out = NoOutput
    /\ fault = NoFault
    /\ kept = <<>>

Init == InitWith(MainArgs)

\* number of policy fields and parameter subgroups that differ from a fresh builder's
Tweaks(self) ==
    Cardinality({f \in DOMAIN standard : self.params[f] # standard[f]})
    + (IF self.tx.kind = "Mint" THEN 0
       ELSE Cardinality({f \in DOMAIN InitialPolicies :
                            self.tx.policies[f] # InitialPolicies[f]}))
    + (IF self.tx.kind = "Script" /\ self.tx.script_gas_limit # 0 THEN 1 ELSE 0)

\* the state after a &mut self method call whose result is r
Mutate(r, call) ==
    /\ fault = NoFault
    /\ builder' = r.self
    /\ fault' = IF r.panic = "none" THEN NoFault
                ELSE [message |-> r.panic, call |-> call]
    /\ kept' = <<>>
    /\ UNCHANGED <<ctor, out>>

\* the state after a setter call: the model bounds the overrides in force
Tweak(r, call) == Tweaks(r.self) <= MaxTweaks /\ Mutate(r, call)

\* the state after a &self finalize call whose result is r
Return(r, call) ==
    /\ fault = NoFault
    /\ builder' = r.self
    /\ out' = IF r.panic = "none" THEN [call |-> call, tx |-> r.ret] ELSE out
    /\ fault' = IF r.panic = "none" THEN NoFault
                ELSE [message |-> r.panic, call |-> [op |-> call]]
    /\ UNCHANGED ctor

\* a finalize call whose result the caller lets go of
Produce(r, call) == Return(r, call) /\ UNCHANGED kept

\* a finalize call whose result the caller holds on to
Keep(r, call) ==
    /\ Len(kept) < MaxKept
    /\ Return(r, call)
    /\ kept' = IF r.panic = "none" THEN Append(kept, [call |-> call, tx |-> r.ret])
               ELSE kept

AddUnsignedCoinInput(keys, limit) ==
    \E secret \in keys :
        /\ IsBuildable(builder)
        /\ Len(builder.tx.inputs) < limit
        /\ Mutate(add_unsigned_coin_input(builder, secret, 1, 1, 0, 0),
                  [op |-> "add_unsigned_coin_input", secret |-> secret])

AddUnsignedMessageInput(keys, datas, limit) ==
    \E secret \in keys, data \in datas :
        /\ IsBuildable(builder)
        /\ Len(builder.tx.inputs) < limit
        /\ Mutate(add_unsigned_message_input(builder, secret, 1, 1, 1, data),
                  [op |-> "add_unsigned_message_input", secret |-> secret])

AddInput(inputs, limit) ==
    \E input \in inputs :
        /\ IsBuildable(builder)
        /\ Len(builder.tx.inputs) < limit
        /\ Mutate(add_input(builder, input), [op |-> "add_input"])

AddOutputUpTo(limit) ==
    \E output \in CallerOutputs :
        /\ IsBuildable(builder)
        /\ Len(builder.tx.outputs) < limit
        /\ Mutate(add_output(builder, output), [op |-> "add_output"])

AddOutput == AddOutputUpTo(MaxOutputs)

AddWitness(witnesses, limit) ==
    \E witness \in witnesses :
        /\ IsBuildable(builder)
        /\ Len(builder.tx.witnesses) < limit
        /\ Mutate(add_witness(builder, witness), [op |-> "add_witness"])

Tip ==
    \E v \in Words :
        IsBuildable(builder) /\ Tweak(tip(builder, v), [op |-> "tip"])

ScriptGasLimit ==
    \E v \in Words :
        /\ builder.tx.kind = "Script"
        /\ Tweak(script_gas_limit(builder, v), [op |-> "script_gas_limit"])

Maturity ==
    \E v \in Words :
        IsBuildable(builder) /\ Tweak(maturity(builder, v), [op |-> "maturity"])

WitnessLimit ==
    \E v \in Words :
        /\ IsBuildable(builder)
        /\ Tweak(witness_limit(builder, v), [op |-> "witness_limit"])

MaxFeeLimit ==
    \E v \in Words :
        /\ IsBuildable(builder)
        /\ Tweak(max_fee_limit(builder, v), [op |-> "max_fee_limit"])

WithParams ==
    \E p \in Profiles : Tweak(with_params(builder, p), [op |-> "with_params"])

WithTxParams ==
    \E v \in SubgroupValues :
        Tweak(with_tx_params(builder, v), [op |-> "with_tx_params"])

WithPredicateParams ==
    \E v \in SubgroupValues :
        Tweak(with_predicate_params(builder, v), [op |-> "with_predicate_params"])

WithScriptParams ==
    \E v \in SubgroupValues :
        Tweak(with_script_params(builder, v), [op |-> "with_script_params"])

WithContractParams ==
    \E v \in SubgroupValues :
        Tweak(with_contract_params(builder, v), [op |-> "with_contract_params"])

WithFeeParams ==
    \E v \in SubgroupValues :
        Tweak(with_fee_params(builder, v), [op |-> "with_fee_params"])

WithBaseAssetId ==
    \E v \in Ids :
        Tweak(with_base_asset_id(builder, v), [op |-> "with_base_asset_id"])

WithGasCosts ==
    \E v \in GasCostTables :
        Tweak(with_gas_costs(builder, v), [op |-> "with_gas_costs"])

WithChainId ==
    \E v \in Ids :
        /\ IsBuildable(builder)
        /\ Tweak(with_chain_id(builder, v), [op |-> "with_chain_id"])

Finalize == Produce(finalize(builder), "finalize")

FinalizeWithoutSignature ==
    Produce(finalize_without_signature(builder), "finalize_without_signature")

FinalizeKept == Keep(finalize(builder), "finalize")

FinalizeWithoutSignatureKept ==
    Keep(finalize_without_signature(builder), "finalize_without_signature")

\* no finalize call has been made yet
Assembling == out = NoOutput

\* the main specification: a builder is assembled, then finalized
Next ==
    \/ Assembling /\ AddUnsignedCoinInput(Keys, MaxInputs)
    \/ Assembling /\ AddUnsignedMessageInput(Keys, {<<6>>}, MaxInputs)
    \/ Assembling /\ AddInput(RawInputs, MaxInputs)
    \/ Assembling /\ AddOutput
    \/ Assembling /\ AddWitness(CallerWitnesses \cup {WitnessDefault}, MaxWitnesses)
    \/ Assembling /\ WithChainId
    \/ Finalize
    \/ FinalizeWithoutSignature

Spec == Init /\ [][Next]_vars

\* every class of builder call, the builder being used again after a finalize
NextReuse ==
    \/ AddUnsignedCoinInput(Keys, MaxInputs)
    \/ AddInput({contract_input}, MaxInputs)
    \/ AddOutput
    \/ AddWitness(CallerWitnesses, MaxWitnesses)
    \/ Tip
    \/ WithChainId
    \/ Finalize
    \/ FinalizeWithoutSignature

SpecReuse == Init /\ [][NextReuse]_vars

(***************************************************************************)
(* Registration only: keys are registered on a fresh builder, and the      *)
(* builder is finalized.                                                   *)
(***************************************************************************)
\* the keys registered where only keys are registered
LedgerKeys == {1, 2, 3}

NextKeys ==
    \/ Assembling /\ AddUnsignedCoinInput(LedgerKeys, MaxKeyInputs)
    \/ Assembling /\ AddUnsignedMessageInput(LedgerKeys, {<<>>, <<6>>}, MaxKeyInputs)
    \/ Finalize
    \/ FinalizeWithoutSignature

SpecKeys == Init /\ [][NextKeys]_vars

(***************************************************************************)
(* Long witness sequences: the caller appends witnesses until the length   *)
(* leaves the range of u8, registering one key along the way.              *)
(***************************************************************************)
NextLong ==
    \/ AddWitness(CallerWitnesses, U8Max + 2)
    \/ AddUnsignedCoinInput({1}, MaxLongInputs)

SpecLong == Init /\ [][NextLong]_vars

(***************************************************************************)
(* The range failure: coin and message inputs are added with a key while   *)
(* the caller appends witnesses until the length leaves the range of u8.   *)
(***************************************************************************)
NextRange ==
    \/ AddWitness(CallerWitnesses, U8Max + 2)
    \/ AddUnsignedCoinInput({1}, MaxLongInputs)
    \/ AddUnsignedMessageInput({1}, {<<>>}, MaxLongInputs)

SpecRange == Init /\ [][NextRange]_vars

(***************************************************************************)
(* Create builders over every short list of storage slots.                 *)
(***************************************************************************)
\* the storage slots a caller may hand to create
SlotValues == {Slot(1, 0), Slot(2, 0), Slot(3, 0), Slot(1, 1)}

\* every list of at most MaxSlots storage slots
SlotLists == UNION {[1..n -> SlotValues] : n \in 0..MaxSlots}

CreateArgs ==
    {[kind |-> "Create", bytecode |-> Bytecode, storage_slots |-> slots] :
        slots \in SlotLists}

NextCreate ==
    \/ Assembling /\ AddUnsignedCoinInput({1}, MaxInputs)
    \/ Assembling /\ AddOutput
    \/ Finalize
    \/ FinalizeWithoutSignature

SpecCreate == InitWith(CreateArgs) /\ [][NextCreate]_vars

(***************************************************************************)
(* Builders of the three kinds side by side: what a Script or Create       *)
(* builder can be asked to do and a Mint builder cannot.                   *)
(***************************************************************************)
NextKinds ==
    \/ Assembling /\ AddUnsignedCoinInput(Keys, MaxInputs)
    \/ Assembling /\ AddUnsignedMessageInput(Keys, {<<>>}, MaxInputs)
    \/ Assembling /\ AddInput({contract_input}, MaxInputs)
    \/ Assembling /\ AddOutput
    \/ Assembling /\ AddWitness(CallerWitnesses, MaxWitnesses)
    \/ Assembling /\ WithChainId
    \/ Assembling /\ WithParams
    \/ Assembling /\ WithBaseAssetId
    \/ Finalize
    \/ FinalizeWithoutSignature

SpecKinds == InitWith(MainArgs \cup MintArgs) /\ [][NextKinds]_vars

(***************************************************************************)
(* Mint builders: the parameter snapshot is all a caller can change.       *)
(***************************************************************************)
NextMint ==
    \/ WithParams
    \/ WithTxParams
    \/ WithPredicateParams
    \/ WithScriptParams
    \/ WithContractParams
    \/ WithFeeParams
    \/ WithBaseAssetId
    \/ WithGasCosts
    \/ FinalizeKept
    \/ FinalizeWithoutSignatureKept

SpecMint == InitWith(MintArgs) /\ [][NextMint]_vars

(***************************************************************************)
(* The parameter snapshot: every setter, on builders of the three kinds.   *)
(***************************************************************************)
NextParams ==
    \/ AddUnsignedCoinInput(Keys, MaxInputs)
    \/ WithParams
    \/ WithTxParams
    \/ WithPredicateParams
    \/ WithScriptParams
    \/ WithContractParams
    \/ WithFeeParams
    \/ WithBaseAssetId
    \/ WithGasCosts
    \/ WithChainId
    \/ Assembling /\ Finalize

SpecParams == InitWith(MainArgs \cup MintArgs) /\ [][NextParams]_vars

(***************************************************************************)
(* Insertion order against key order: keys are registered in either order  *)
(* and inputs given to add_input make two keys sign one slot.              *)
(***************************************************************************)
\* signed inputs of the keys' owners that point at witness slot 0
SharedSlotInputs == {coin_signed(2, owner(public_key(k)), 1, 0, 0, 0) : k \in Keys}

NextOrder ==
    \/ Assembling /\ AddUnsignedCoinInput(Keys, MaxOrderInputs)
    \/ Assembling /\ AddInput(SharedSlotInputs, MaxOrderInputs)
    \/ Assembling /\ AddWitness(CallerWitnesses, MaxWitnesses)
    \/ Finalize
    \/ FinalizeWithoutSignature

SpecOrder == Init /\ [][NextOrder]_vars

(***************************************************************************)
(* The three accumulators: entries are added, also equal ones, and the     *)
(* builder is finalized and used again.                                    *)
(***************************************************************************)
NextAppend ==
    \/ AddUnsignedCoinInput({1}, MaxInputs)
    \/ AddInput({contract_input}, MaxInputs)
    \/ AddOutputUpTo(MaxInputs)
    \/ AddWitness(CallerWitnesses, MaxWitnesses)
    \/ Finalize
    \/ FinalizeWithoutSignature

SpecAppend == Init /\ [][NextAppend]_vars

(***************************************************************************)
(* Repeated finalize calls: the caller holds on to every result since the  *)
(* last &mut call and compares them.                                       *)
(***************************************************************************)
NextTwice ==
    \/ AddUnsignedCoinInput(Keys, MaxInputs)
    \/ AddWitness(CallerWitnesses, MaxWitnesses)
    \/ WithChainId
    \/ FinalizeKept
    \/ FinalizeWithoutSignatureKept

SpecTwice == Init /\ [][NextTwice]_vars

(***************************************************************************)
(* Properties.                                                             *)
(***************************************************************************)
\* the witness indices the ledger holds
LedgerIndexes(self) == {self.sign_keys[k] : k \in DOMAIN self.sign_keys}

\* the number of witnesses a fresh builder of this kind holds
FreshWitnesses == IF ctor.kind = "Create" THEN 1 ELSE 0

\* both inputs of a two-input transaction are coin inputs of one owner
TwoCoinInputsOfOneKey(tx) ==
    /\ Len(tx.inputs) = 2
    /\ tx.inputs[1].type = "CoinSigned"
    /\ tx.inputs[2].type = "CoinSigned"
    /\ tx.inputs[1].owner = tx.inputs[2].owner

\* C1: where inputs are added only through add_unsigned_coin_input and
\* add_unsigned_message_input, with any interleaving of keys, the witness
\* sequence has grown by exactly one witness per key in the ledger however
\* often each key was used, every input carries the index the ledger holds
\* for its key (so inputs of one key carry one index), and a Script builder
\* with two coin inputs of one key finalizes to one witness, both inputs
\* carrying index 0.
C1_OneWitnessPerKey ==
    LET tx == builder.tx IN
    /\ Len(tx.witnesses) = FreshWitnesses + Cardinality(DOMAIN builder.sign_keys)
    /\ \A i \in 1..Len(tx.inputs) :
          \E k \in DOMAIN builder.sign_keys :
              /\ tx.inputs[i].owner = owner(public_key(k))
              /\ tx.inputs[i].witness_index = builder.sign_keys[k]
    /\ \A i, j \in 1..Len(tx.inputs) :
          tx.inputs[i].owner = tx.inputs[j].owner
              => tx.inputs[i].witness_index = tx.inputs[j].witness_index
    /\ (out.call = "finalize" /\ ctor.kind = "Script"
            /\ TwoCoinInputsOfOneKey(out.tx))
          => /\ Len(out.tx.witnesses) = 1
             /\ out.tx.inputs[1].witness_index = 0
             /\ out.tx.inputs[2].witness_index = 0

\* a Script builder with two coin inputs of one key has been finalized
C1_Witness ==
    out.call = "finalize" /\ ctor.kind = "Script" /\ TwoCoinInputsOfOneKey(out.tx)

\* C2: in every reachable builder state, registering a key the ledger
\* already holds returns the recorded index, does not fail, and leaves the
\* builder (witnesses and ledger) as it was.
C2_KnownKeyIdempotent ==
    \A k \in DOMAIN builder.sign_keys :
        LET r == upsert_secret(builder, k) IN
        /\ r.panic = "none"
        /\ r.ret = builder.sign_keys[k]
        /\ r.self = builder

\* C3: no step of the builder removes a key from the ledger or changes the
\* witness index a key maps to.
C3_LedgerStable ==
    [][\A k \in DOMAIN builder.sign_keys :
          /\ k \in DOMAIN builder'.sign_keys
          /\ builder'.sign_keys[k] = builder.sign_keys[k]]_vars

\* a key was registered, a witness appended after its placeholder, the key
\* registered again, and the builder finalized
C3_Witness ==
    /\ Cardinality(DOMAIN builder.sign_keys) = 1
    /\ Len(builder.tx.inputs) = 2
    /\ IsSigned(builder.tx.inputs[1])
    /\ IsSigned(builder.tx.inputs[2])
    /\ builder.tx.inputs[1].owner = builder.tx.inputs[2].owner
    /\ Len(builder.tx.witnesses) > FreshWitnesses + 1
    /\ LedgerIndexes(builder) = {FreshWitnesses}
    /\ out.call = "finalize"

\* C4: registering n distinct keys on a fresh builder gives the ledger the
\* witness indices 0..n-1 on a Script builder and 1..n on a Create builder.
C4_IndexRange ==
    LET n == Cardinality(DOMAIN builder.sign_keys) IN
    LedgerIndexes(builder) =
        IF ctor.kind = "Script" THEN 0..(n - 1) ELSE 1..n

\* three distinct keys are registered on a Create builder
C4_Witness ==
    ctor.kind = "Create" /\ Cardinality(DOMAIN builder.sign_keys) = 3

\* the id a finalize call on the builder signs
SignedId(self) == [chain_id |-> self.params.chain_id, body |-> Body(self.tx)]

\* C5: a finalize or finalize_without_signature call leaves the builder
\* (draft, ledger, parameter snapshot) as it was and returns a transaction
\* with the body, witness count and chain id the builder has at the call;
\* a later call that changes the builder leaves the returned value as it was.
C5_FinalizeLeavesBuilder ==
    [][/\ out' # out =>
            /\ builder' = builder
            /\ Body(out'.tx) = Body(builder.tx)
            /\ Len(out'.tx.witnesses) = Len(builder.tx.witnesses)
            /\ out'.tx.metadata.id = SignedId(builder)
       /\ builder' # builder => out' = out]_vars

\* a builder with a registered key was finalized and then given another input
C5_Witness ==
    /\ out.call = "finalize"
    /\ DOMAIN builder.sign_keys # {}
    /\ Len(out.tx.inputs) = 1
    /\ Len(builder.tx.inputs) = 2
    /\ Len(builder.tx.witnesses) > Len(out.tx.witnesses)

\* the ledger keys owning a signed input that carries witness index w
SignersOf(self, w) ==
    {k \in DOMAIN self.sign_keys :
        w \in WitnessIndexesOf(self.tx, owner(public_key(k)))}

\* the greatest key of a non-empty set of keys
LastKey(keys) == CHOOSE k \in keys : \A other \in keys : other <= k

C7_UnsignedWitnesses ==
    out.call = "finalize_without_signature" =>
        /\ Len(out.tx.witnesses) = Len(builder.tx.witnesses)
        /\ \A k \in DOMAIN builder.sign_keys :
              out.tx.witnesses[builder.sign_keys[k] + 1] = WitnessDefault
        /\ \A w \in 1..Len(out.tx.witnesses) :
              (w - 1) \notin LedgerIndexes(builder)
                  => out.tx.witnesses[w] = builder.tx.witnesses[w]
        /\ ctor.kind = "Create" => out.tx.witnesses[1] = ctor.bytecode

\* a Create builder holding a key, a caller-supplied witness and an input
\* given to add_input was finalized without signature
C7_Witness ==
    /\ out.call = "finalize_without_signature"
    /\ ctor.kind = "Create"
    /\ Cardinality(DOMAIN builder.sign_keys) = 1
    /\ \E w \in 1..Len(out.tx.witnesses) : out.tx.witnesses[w] \in CallerWitnesses
    /\ \E i \in 1..Len(builder.tx.inputs) :
          /\ IsSigned(builder.tx.inputs[i])
          /\ builder.tx.inputs[i].witness_index \notin LedgerIndexes(builder)

\* C8 as stated: no witness index in the ledger or in an input exceeds 255,
\* index 255 is assignable, and registering a key fails exactly when the key
\* is new and the witness sequence is longer than 255.
C8_FailsExactlyWhenNewPastRange ==
    /\ \A w \in LedgerIndexes(builder) : w <= U8Max
    /\ \A i \in 1..Len(builder.tx.inputs) :
          IsSigned(builder.tx.inputs[i])
              => builder.tx.inputs[i].witness_index <= U8Max
    /\ \A k \in Keys :
          LET r == upsert_secret(builder, k) IN
          /\ r.panic # "none"
                <=> (k \notin DOMAIN builder.sign_keys
                        /\ Len(builder.tx.witnesses) > U8Max)
          /\ (k \notin DOMAIN builder.sign_keys
                  /\ Len(builder.tx.witnesses) = U8Max) => r.ret = U8Max
    /\ fault # NoFault => fault.call.secret \notin DOMAIN builder.sign_keys

IsSortedByKey(slots) ==
    \A i \in 1..(Len(slots) - 1) : slots[i].key <= slots[i + 1].key

\* how often a slot occurs in a sequence of slots
Occurrences(slots, slot) == Cardinality({i \in 1..Len(slots) : slots[i] = slot})

\* the two sequences hold the same slots, each as often
IsPermutation(a, b) ==
    /\ Len(a) = Len(b)
    /\ \A slot \in SlotValues : Occurrences(a, slot) = Occurrences(b, slot)

\* the keys of a sequence of slots
KeysOf(slots) == [i \in 1..Len(slots) |-> slots[i].key]

\* C10: the storage slots of a Create builder, and of every transaction it
\* finalizes, are the slots given to create in ascending key order, whatever
\* order they were given in and whatever calls follow; keys 3, 1, 2 give
\* 1, 2, 3.
C10_SlotsSorted ==
    /\ IsSortedByKey(builder.tx.storage_slots)
    /\ IsPermutation(builder.tx.storage_slots, ctor.storage_slots)
    /\ out.call # "none" =>
          /\ IsSortedByKey(out.tx.storage_slots)
          /\ IsPermutation(out.tx.storage_slots, ctor.storage_slots)
    /\ KeysOf(ctor.storage_slots) = <<3, 1, 2>>
          => /\ KeysOf(builder.tx.storage_slots) = <<1, 2, 3>>
             /\ out.call # "none" => KeysOf(out.tx.storage_slots) = <<1, 2, 3>>

\* a Create builder given slots with keys 3, 1, 2 was used and finalized
C10_Witness ==
    /\ KeysOf(ctor.storage_slots) = <<3, 1, 2>>
    /\ Len(builder.tx.inputs) = 2
    /\ out.call = "finalize"

MintFields ==
    {"kind", "tx_pointer", "input_contract", "output_contract", "mint_amount",
     "mint_asset_id", "gas_price", "metadata"}

\* C12: a Mint builder's ledger is empty in every reachable state; none of
\* the calls that add an input, an output, a witness or a signing key is
\* available on it; its draft and every transaction it finalizes have no
\* input, output or witness sequence, and no signature enters the derived
\* metadata.
C12_MintNeverSigned ==
    ctor.kind = "Mint" =>
        /\ builder.sign_keys = << >>
        /\ ~IsBuildable(builder)
        /\ ~ENABLED AddUnsignedCoinInput(Keys, MaxInputs)
        /\ ~ENABLED AddUnsignedMessageInput(Keys, {<<>>}, MaxInputs)
        /\ ~ENABLED AddInput({contract_input}, MaxInputs)
        /\ ~ENABLED AddOutput
        /\ ~ENABLED AddWitness(CallerWitnesses, MaxWitnesses)
        /\ DOMAIN builder.tx = MintFields
        /\ out.call # "none" =>
              /\ DOMAIN out.tx = MintFields
              /\ out.tx.metadata.assembled = <<>>
              /\ Body(out.tx) = Body(builder.tx)

\* a Mint builder whose parameter snapshot was replaced has been finalized
C12_Witness ==
    /\ ctor.kind = "Mint"
    /\ builder.params # standard
    /\ out.call = "finalize"

\* C13: on a Mint builder, in every builder state, finalize and
\* finalize_without_signature return the same transaction: the two calls
\* give equal results on the current builder, and the results a caller
\* holds from calls of either method with no &mut call in between are equal.
C13_MintFinalizeCoincide ==
    ctor.kind = "Mint" =>
        /\ finalize_without_signature(builder) = finalize(builder)
        /\ \A i, j \in 1..Len(kept) : kept[i].tx = kept[j].tx

\* on a Mint builder under chain id 1 the caller holds a finalize result
\* and a finalize_without_signature result
C13_Witness ==
    /\ ctor.kind = "Mint"
    /\ builder.params.chain_id = 1
    /\ Len(kept) >= 2
    /\ kept[1].call = "finalize"
    /\ kept[2].call = "finalize_without_signature"
    /\ kept[1].tx.metadata.cached

\* the call result r has replaced the given subgroup of the current
\* builder's snapshot by v and left the rest of the builder as it is
ReplacesOnly(r, subgroup, v) ==
    /\ r.panic = "none"
    /\ DOMAIN r.self.params = DOMAIN builder.params
    /\ r.self.params[subgroup] = v
    /\ \A other \in DOMAIN builder.params \ {subgroup} :
          r.self.params[other] = builder.params[other]
    /\ r.self.tx = builder.tx
    /\ r.self.sign_keys = builder.sign_keys

\* C14: in every reachable builder state each per-subgroup setter replaces
\* its own subgroup of the snapshot by the given value and leaves the other
\* subgroups, the draft and the ledger as they are; with_params replaces the
\* whole snapshot and leaves the draft and the ledger as they are; the
\* snapshot of a builder as constructed is the standard profile.
C14_SettersReplaceOwnSubgroup ==
    /\ \A v \in SubgroupValues :
          /\ ReplacesOnly(with_tx_params(builder, v), "tx_params", v)
          /\ ReplacesOnly(with_predicate_params(builder, v), "predicate_params", v)
          /\ ReplacesOnly(with_script_params(builder, v), "script_params", v)
          /\ ReplacesOnly(with_contract_params(builder, v), "contract_params", v)
          /\ ReplacesOnly(with_fee_params(builder, v), "fee_params", v)
    /\ \A v \in Ids :
          /\ ReplacesOnly(with_base_asset_id(builder, v), "base_asset_id", v)
          /\ IsBuildable(builder)
                => ReplacesOnly(with_chain_id(builder, v), "chain_id", v)
    /\ \A v \in GasCostTables :
          ReplacesOnly(with_gas_costs(builder, v), "gas_costs", v)
    /\ \A p \in Profiles :
          LET r == with_params(builder, p) IN
          /\ r.panic = "none"
          /\ r.self.params = p
          /\ r.self.tx = builder.tx
          /\ r.self.sign_keys = builder.sign_keys
    /\ Construct(ctor).params = standard

\* a builder holding a key, with two subgroups of its snapshot replaced,
\* was finalized under the chain id it was given
C14_Witness ==
    /\ builder.params.fee_params = "custom"
    /\ builder.params.chain_id = 1
    /\ DOMAIN builder.sign_keys # {}
    /\ out.call = "finalize"
    /\ out.tx.metadata.id.chain_id = 1

\* C15: a step that registers a key the ledger did not hold appends exactly
\* one default witness at the end of the witness sequence, records for the
\* key the length the sequence had before the append (Create's bytecode,
\* witnesses given to add_witness and earlier placeholders all counted),
\* and the input added with the key carries that index.
C15_NewKeyAppendsPlaceholder ==
    [][\A k \in DOMAIN builder'.sign_keys \ DOMAIN builder.sign_keys :
          /\ builder'.tx.witnesses = Append(builder.tx.witnesses, WitnessDefault)
          /\ builder'.sign_keys[k] = Len(builder.tx.witnesses)
          /\ Len(builder'.tx.inputs) = Len(builder.tx.inputs) + 1
          /\ builder'.tx.inputs[Len(builder'.tx.inputs)].witness_index
                = Len(builder.tx.witnesses)]_vars

\* on a Create builder a key was registered after the bytecode, then a
\* witness was given to add_witness, then a second key was registered
C15_Witness ==
    /\ ctor.kind = "Create"
    /\ Len(builder.tx.witnesses) = 4
    /\ LedgerIndexes(builder) = {1, 3}
    /\ builder.tx.witnesses[3] \in CallerWitnesses
    /\ builder.tx.witnesses[4] = WitnessDefault

IsPrefix(a, b) == Len(a) <= Len(b) /\ SubSeq(b, 1, Len(a)) = a

\* C17: every step of the builder leaves each of the input, output and
\* witness sequences a prefix of its new value, so every earlier value stays
\* a prefix; a step adds at most one entry to a sequence, a witness together
\* with an input only when a key is registered; add_input, add_output and
\* add_witness append their argument at the end, also when the sequence
\* already holds an equal entry.
C17_AppendOnly ==
    [][/\ IsBuildable(builder) =>
             /\ IsPrefix(builder.tx.inputs, builder'.tx.inputs)
             /\ IsPrefix(builder.tx.outputs, builder'.tx.outputs)
             /\ IsPrefix(builder.tx.witnesses, builder'.tx.witnesses)
             /\ Len(builder'.tx.inputs) <= Len(builder.tx.inputs) + 1
             /\ Len(builder'.tx.outputs) <= Len(builder.tx.outputs) + 1
             /\ Len(builder'.tx.witnesses) <= Len(builder.tx.witnesses) + 1
             /\ (Len(builder'.tx.inputs) + Len(builder'.tx.outputs)
                    + Len(builder'.tx.witnesses)
                  > Len(builder.tx.inputs) + Len(builder.tx.outputs)
                    + Len(builder.tx.witnesses) + 1)
                   => builder'.sign_keys # builder.sign_keys
             /\ add_input(builder, contract_input).self.tx.inputs
                   = Append(builder.tx.inputs, contract_input)
             /\ \A output \in CallerOutputs :
                   add_output(builder, output).self.tx.outputs
                       = Append(builder.tx.outputs, output)
             /\ \A witness \in CallerWitnesses :
                   add_witness(builder, witness).self.tx.witnesses
                       = Append(builder.tx.witnesses, witness)]_vars

\* a builder that was finalized and used again holds two equal inputs, two
\* equal outputs and two equal caller-supplied witnesses
C17_Witness ==
    /\ builder.tx.inputs = <<contract_input, contract_input>>
    /\ Len(builder.tx.outputs) = 2
    /\ builder.tx.outputs[1] = builder.tx.outputs[2]
    /\ Len(builder.tx.witnesses) = FreshWitnesses + 2
    /\ builder.tx.witnesses[FreshWitnesses + 1] \in CallerWitnesses
    /\ builder.tx.witnesses[FreshWitnesses + 2] = builder.tx.witnesses[FreshWitnesses + 1]
    /\ out.call = "finalize"
    /\ Len(out.tx.inputs) = 1

\* the ledger is injective, every ledger index lies within the witness
\* sequence, and the builder's witness at a ledger index is the placeholder
LedgerWellFormed(self) ==
    /\ \A a, b \in DOMAIN self.sign_keys :
          self.sign_keys[a] = self.sign_keys[b] => a = b
    /\ \A k \in DOMAIN self.sign_keys :
          /\ self.sign_keys[k] < Len(self.tx.witnesses)
          /\ self.tx.witnesses[self.sign_keys[k] + 1] = WitnessDefault

\* every slot the finalize result differs in from the builder is the ledger
\* slot of exactly one key and holds that key's signature
SignedInLedgerSlotsOnly ==
    \A w \in 1..Len(out.tx.witnesses) :
        out.tx.witnesses[w] # builder.tx.witnesses[w] =>
            \E k \in DOMAIN builder.sign_keys :
                /\ builder.sign_keys[k] = w - 1
                /\ out.tx.witnesses[w] = Sign(k, SignedId(builder))
                /\ SignersOf(builder, w - 1) = {k}

C19_FailureBeforeMutation ==
    [][(fault = NoFault /\ fault' # NoFault) =>
          /\ builder' = builder
          /\ fault'.call.op \in {"add_unsigned_coin_input", "add_unsigned_message_input"}
          /\ fault'.message = "The number of witnesses cannot exceed u8::MAX"
          /\ Len(builder.tx.witnesses) > U8Max]_vars

\* add_unsigned_message_input failed with a key the ledger does not hold
\* on a builder of 256 witnesses and no input
C19_Witness ==
    /\ fault # NoFault
    /\ fault.call.op = "add_unsigned_message_input"
    /\ fault.call.secret \notin DOMAIN builder.sign_keys
    /\ Len(builder.tx.witnesses) = U8Max + 1
    /\ builder.tx.inputs = <<>>

====
